---- MODULE Spec2Model ----
(***************************************************************************)
(* Model of main.py: discovery of the Python files under src/, generation  *)
(* of one test file per module through GeminiModel.generate_test_code      *)
(* (tenacity retry around one backend call), execution of the generated    *)
(* tests, report, and the approval-gated repair loop.                      *)
(*                                                                         *)
(* A Python string is modelled as the non-empty sequence of its lines      *)
(* (what str.split("\n") returns): "" is <<"">>, "a\n" is <<"a", "">>.     *)
(* In a line, [fence] stands for the three backquote characters of a       *)
(* Markdown code fence.                                                    *)
(* A path is a record [dir |-> sequence of directory names, name |->       *)
(* [stem, ext]].                                                           *)
(***************************************************************************)
EXTENDS Integers, Sequences, FiniteSets, TLC

VARIABLES
    srcExists,          \* os.path.exists(src_dir)
    tree,               \* the files below src_dir
    python_files,       \* main: python_files
    pc,                 \* position of main
    idx,                \* position of the running for loop (1-based)
    files,              \* content of the files in the tests directory
    test_files_created, \* main: test_files_created
    created_from,       \* index in python_files of the module behind each entry of test_files_created
    test_results,       \* main: test_results (dict, in insertion order)
    passed_tests,       \* main: passed_tests
    failed_tests,       \* main: failed_tests
    reported,           \* the report (lines 165-171) was logged
    approval,           \* main: approval (the answer read by input)
    prompts,            \* number of calls of input
    attempt_number,     \* tenacity: attempt number of the running generate_test_code call
    call,               \* outcome of the last generate_test_code call, as main sees it
    generate_calls,     \* number of generate_test_code calls begun in the run
    call_log,           \* outcome of every attempt of the running/last generate_test_code call
    gen_log,            \* what became of each module handled by the generation loop
    runner_calls,       \* number of runner.run calls of the run
    result,             \* how the last runner.run call ended
    fix_log,            \* what became of each failed test handled by the repair loop
    at_prompt,          \* the test files and generate_calls when input was called
    norm_in,            \* SpecNormalize: the response given to extract_text_from_response
    norm_out,           \* SpecNormalize: what extract_text_from_response did with it
    ext_in,             \* SpecExtract: the text given to extract_code_from_markdown
    ext_out             \* SpecExtract: what extract_code_from_markdown returned for it

vars == <<srcExists, tree, python_files, pc, idx, files, test_files_created,
          created_from, test_results, passed_tests, failed_tests, reported,
          approval, prompts, attempt_number, call, generate_calls,
          call_log, gen_log, runner_calls, result, fix_log, at_prompt, norm_in,
          norm_out, ext_in, ext_out>>

-----------------------------------------------------------------------------
(* Bounds and program constants *)

MaxModules == 2         \* at most this many qualifying files below src/

MaxAttempts == 3        \* stop_after_attempt(3)

MaxLines == 4           \* SpecExtract: at most this many lines in a text

-----------------------------------------------------------------------------
(* Texts *)

EmptyText == <<"">>

Front(s) == SubSeq(s, 1, Len(s) - 1)

\* str.splitlines(): the lines of the text, without a trailing empty line
SplitLines(text) ==
    IF text[Len(text)] = "" THEN Front(text) ELSE text

\* "\n".join(lines)
JoinLines(lines) ==
    IF lines = <<>> THEN EmptyText ELSE lines

\* line.lstrip() of one line
LStripLine(line) ==
    CASE line = "  [fence]python" -> "[fence]python"
      [] line = "  "              -> ""
      [] OTHER                    -> line

\* line.rstrip() of one line
RStripLine(line) ==
    IF line = "  " THEN "" ELSE line

\* line.strip() of one line
StripLine(line) == RStripLine(LStripLine(line))

\* s.startswith("[fence]")
StartsWithFence(s) == s \in {"[fence]python", "[fence]", "[fence]js"}

\* an opener test that takes every fence, bare or tagged, for an opener
StartsWithAnyFence(s) == StartsWithFence(s)

\* s.startswith("[fence]python")
StartsWithPythonFence(s) == s \in {"[fence]python"}

\* line.replace("[fence]python", "").replace("[fence]", "") of one line
RemoveFences(line) ==
    CASE line = "[fence]python"   -> ""
      [] line = "[fence]"         -> ""
      [] line = "[fence]js"       -> "js"
      [] line = "  [fence]python" -> "  "
      [] line = "y = 2 #[fence]"   -> "y = 2 #"
      [] OTHER                -> line

RECURSIVE DropLeadingBlank(_)
DropLeadingBlank(lines) ==
    IF lines = <<>> THEN <<>>
    ELSE IF StripLine(lines[1]) = "" THEN DropLeadingBlank(Tail(lines))
    ELSE <<LStripLine(lines[1])>> \o Tail(lines)

RECURSIVE DropTrailingBlank(_)
DropTrailingBlank(lines) ==
    IF lines = <<>> THEN <<>>
    ELSE IF StripLine(lines[Len(lines)]) = "" THEN DropTrailingBlank(Front(lines))
    ELSE Front(lines) \o <<RStripLine(lines[Len(lines)])>>

\* text.strip()
StripText(text) ==
    JoinLines(DropTrailingBlank(DropLeadingBlank(text)))

\* GeminiModel.sanitize_generated_text
sanitize_generated_text(text) ==
    StripText([i \in 1..Len(text) |-> RemoveFences(text[i])])

\* the scan of extract_code_from_markdown over the remaining lines
RECURSIVE ScanLines(_, _, _)
ScanLines(lines, in_code_block, code_lines) ==
    IF lines = <<>> THEN code_lines
    ELSE IF StartsWithPythonFence(StripLine(lines[1]))
         THEN ScanLines(Tail(lines), TRUE, code_lines)
    ELSE IF StartsWithFence(StripLine(lines[1])) /\ in_code_block
         THEN ScanLines(Tail(lines), FALSE, code_lines)
    ELSE IF in_code_block
         THEN ScanLines(Tail(lines), in_code_block, Append(code_lines, lines[1]))
    ELSE ScanLines(Tail(lines), in_code_block, code_lines)

extract_code_from_markdown(text) ==
    JoinLines(ScanLines(SplitLines(text), FALSE, <<>>))

\* a compile check that lets every text through
CompilesAnything(text) == Len(text) >= 0

\* compile(text, "<string>", "exec") raises no SyntaxError
Compiles(text) ==
    \A i \in 1..Len(text) :
        text[i] \notin {"def f(:", "Sure!", "[fence]python", "[fence]", "[fence]js", "  [fence]python"}

\* the texts the model is taken to answer with
ModelOutputs ==
    { <<"Sure!", "  [fence]python", "x = 1", "[fence]", "">>,
      <<"x = 1">>,
      <<"[fence]python", "", "  ", "[fence]">>,
      <<"[fence]python", "def f(:", "[fence]">>,
      <<"[fence]python", "y = 2 #[fence]">> }


-----------------------------------------------------------------------------
(* Exceptions and backend responses *)

NoExc == [type |-> "", detail |-> ""]

ResourceExhausted == [type |-> "ResourceExhausted", detail |-> "quota"]

TimeoutError == [type |-> "TimeoutError", detail |-> ""]

BackendError == [type |-> "ValueError", detail |-> "backend"]

\* AttributeError("GenerateContentResponseに適切な属性が存在しません。")
UnrecognizedResponse == [type |-> "AttributeError", detail |-> "unrecognized response"]

\* the AttributeError of `.text` on an element that has no text
NoTextAttribute == [type |-> "AttributeError", detail |-> "no attribute text"]

\* tenacity.RetryError wrapping the last attempt
RetryError(exc) == [type |-> "RetryError", detail |-> exc.type]

BackendExceptions == {ResourceExhausted, TimeoutError, BackendError}

Absent == [present |-> FALSE, val |-> EmptyText]

Items ==
    { <<>>, <<[hasText |-> TRUE, text |-> <<"x = 1">>]>>,
      <<[hasText |-> FALSE, text |-> EmptyText]>> }

NoList == [present |-> FALSE, isList |-> FALSE, items |-> <<>>]

Lists ==
    {NoList} \cup {[present |-> TRUE, isList |-> TRUE, items |-> it] : it \in Items}
        \cup {[present |-> TRUE, isList |-> FALSE, items |-> <<>>]}

\* A response is an object with attributes or a dict with keys; a field that
\* is not present is a missing attribute (object) or a missing key (dict).
Responses ==
    { [isDict |-> d, generations |-> g, text |-> t, choices |-> c] :
        d \in BOOLEAN,
        g \in Lists,
        t \in {Absent} \cup {[present |-> TRUE, val |-> o] : o \in ModelOutputs},
        c \in {l \in Lists : l.present => l.isList} }

NoResponse ==
    [isDict |-> FALSE, generations |-> NoList, text |-> Absent, choices |-> NoList]

\* len(response.generations) needs a sized attribute
Sized(r) == (~r.isDict /\ r.generations.present) => r.generations.isList

\* the responses the backend is taken to hand back to main: the object with
\* a text attribute that generate_content documents, and every shape that
\* carries no text field at all
BackendResponses ==
    { r \in Responses :
        /\ Sized(r)
        /\ r.text.present =>
              ~r.isDict /\ ~r.generations.present /\ ~r.choices.present }

Returned(text) == [kind |-> "text", text |-> text, exc |-> NoExc]

ReturnedNone == [kind |-> "none", text |-> EmptyText, exc |-> NoExc]

Raised(exc) == [kind |-> "raise", text |-> EmptyText, exc |-> exc]

\* element.text of the first element of a list attribute
ItemText(item) ==
    IF item.hasText THEN Returned(item.text) ELSE Raised(NoTextAttribute)

\* element.get(text, default empty) of the first element of a list value
ItemGet(item) ==
    IF item.hasText THEN Returned(item.text) ELSE Returned(EmptyText)

\* a normalization that probes the text attribute before the generations
\* attribute
TextAttributeFirst(r) ==
    IF ~r.isDict /\ r.text.present
        THEN Returned(r.text.val)
    ELSE IF ~r.isDict /\ r.generations.present /\ Len(r.generations.items) > 0
        THEN ItemText(r.generations.items[1])
    ELSE IF r.isDict /\ r.text.present
        THEN Returned(r.text.val)
    ELSE IF r.choices.present /\ Len(r.choices.items) > 0
        THEN ItemText(r.choices.items[1])
    ELSE Raised(UnrecognizedResponse)

\* GeminiModel.extract_text_from_response
extract_text_from_response(r) ==
    IF ~r.isDict /\ r.generations.present /\ Len(r.generations.items) > 0
        THEN ItemText(r.generations.items[1])
    ELSE IF ~r.isDict /\ r.text.present
        THEN Returned(r.text.val)
    ELSE IF r.isDict
        THEN IF r.generations.present /\ r.generations.isList
                  /\ Len(r.generations.items) > 0
                 THEN ItemGet(r.generations.items[1])
             ELSE IF r.text.present
                 THEN Returned(r.text.val)
             ELSE ReturnedNone
    ELSE IF r.choices.present /\ Len(r.choices.items) > 0
        THEN ItemText(r.choices.items[1])
    ELSE Raised(UnrecognizedResponse)

\* a retry predicate that lets every exception through to another attempt
RetriesAnyException(exc) == exc.type # ""

\* retry_if_exception_type((ResourceExhausted, asyncio.TimeoutError))
IsRetried(exc) == exc.type \in {"ResourceExhausted", "TimeoutError"}

NoCall == [kind |-> "idle", text |-> EmptyText, exc |-> NoExc]

\* a retry that never stops
AfterAttemptUnbounded(out, n) ==
    IF out.kind = "raise" /\ IsRetried(out.exc) THEN NoCall ELSE out

\* tenacity after attempt n ended with out: NoCall stands for "wait and call
\* again"; otherwise what the caller of generate_test_code gets
AfterAttempt(out, n) ==
    IF out.kind = "raise" /\ IsRetried(out.exc)
        THEN IF n < MaxAttempts THEN NoCall ELSE Raised(RetryError(out.exc))
    ELSE out

-----------------------------------------------------------------------------
(* Paths and discovery *)

SrcDir == <<"src">>

TestDir == <<"tests">>

File(dir, stem, ext) == [dir |-> dir, name |-> [stem |-> stem, ext |-> ext]]

\* the files that may lie below src/
CandidateFiles ==
    { File(SrcDir, "a", ".py"),
      File(SrcDir \o <<"pkg">>, "a", ".py"),
      File(SrcDir, "b", ".py"),
      File(SrcDir \o <<"pkg">>, "__init__", ".py"),
      File(SrcDir, "notes", ".txt") }

\* the trees a run may find: an empty src/, or the two files that are no
\* module together with at most MaxModules modules
Trees ==
    {{}} \cup
    { fs \in SUBSET CandidateFiles :
        /\ File(SrcDir \o <<"pkg">>, "__init__", ".py") \in fs
        /\ File(SrcDir, "notes", ".txt") \in fs
        /\ Cardinality({f \in fs : f.name.stem \in {"a", "b"}}) <= MaxModules }

\* a filter that takes every .py file, __init__.py included
EndsWithPy(name) == name.ext = ".py"

\* file.endswith(".py") and file != "__init__.py"
IsPythonModule(name) ==
    name.ext = ".py" /\ name # [stem |-> "__init__", ext |-> ".py"]

Qualifying(fs) == {f \in fs : IsPythonModule(f.name)}

\* os.path.basename
Basename(path) == path.name

\* f"test_{os.path.basename(file_path)}"
TestFileName(path) ==
    [stem |-> "test_" \o Basename(path).stem, ext |-> Basename(path).ext]

\* a test file path that is the path of the module itself
ModulePath(path) == path

\* os.path.join(test_dir, test_file_name)
TestFilePath(path) == [dir |-> TestDir, name |-> TestFileName(path)]

TestPaths == {TestFilePath(f) : f \in Qualifying(CandidateFiles)}

IsProperPrefix(s, t) == Len(s) < Len(t) /\ SubSeq(t, 1, Len(s)) = s

\* the orders in which os.walk (top-down) can list the qualifying files:
\* the files of a directory come before the files of its sub-directories
WalkOrders(fs) ==
    { s \in [1..Cardinality(fs) -> fs] :
        /\ \A i, j \in 1..Cardinality(fs) : i # j => s[i] # s[j]
        /\ \A i, j \in 1..Cardinality(fs) :
              i < j => ~IsProperPrefix(s[j].dir, s[i].dir) }

NoFile == [exists |-> FALSE, text |-> EmptyText]

FileWith(text) == [exists |-> TRUE, text |-> text]

\* what a file below src/ holds
SourceText == <<"def f(): pass">>

\* the paths of the files of a run, below src/ and in tests/
AllPaths == CandidateFiles \cup TestPaths

\* the files before main runs: those of the tree, and no test file
FilesOf(fs) ==
    [p \in AllPaths |-> IF p \in fs THEN FileWith(SourceText) ELSE NoFile]

\* what open(path, "w") followed by f.write(text) can do to the file
WriteOutcomes == {"written", "open_failed", "write_failed"}

AfterWrite(old, text, outcome) ==
    CASE outcome = "written"      -> FileWith(text)
      [] outcome = "open_failed"  -> old
      [] outcome = "write_failed" -> FileWith(EmptyText)

-----------------------------------------------------------------------------
(* The dict test_results, kept in insertion order *)

HasKey(d, k) == \E i \in 1..Len(d) : d[i].key = k

\* d[k] = v
DictSet(d, k, v) ==
    IF HasKey(d, k)
        THEN [i \in 1..Len(d) |-> IF d[i].key = k THEN [key |-> k, val |-> v] ELSE d[i]]
    ELSE Append(d, [key |-> k, val |-> v])

\* a selection that takes every key, whatever its value
KeysIgnoringValue(d, b) == [i \in 1..Len(d) |-> d[i].key]

RECURSIVE KeysWith(_, _)
\* [k for k, v in d.items() if v == b]
KeysWith(d, b) ==
    IF d = <<>> THEN <<>>
    ELSE (IF d[1].val = b THEN <<d[1].key>> ELSE <<>>) \o KeysWith(Tail(d), b)

-----------------------------------------------------------------------------
(* The approval answer *)

Answers == {"yes", "YES", "no", ""}

Unasked == "(not asked)"

\* str.lower
Lower(a) == IF a = "YES" THEN "yes" ELSE a

\* an approval test that takes everything but "no" for a yes
ApprovedUnlessNo(a) == Lower(a) # "no"

\* approval.lower() == "yes"
IsApproved(a) == Lower(a) = "yes"

-----------------------------------------------------------------------------
(* The run of main *)

Init ==
    /\ srcExists \in BOOLEAN
    /\ tree \in IF srcExists THEN Trees ELSE {{}}
    /\ python_files = <<>>
    /\ pc = "start"
    /\ idx = 1
    /\ files = FilesOf(tree)
    /\ test_files_created = <<>>
    /\ created_from = <<>>
    /\ test_results = <<>>
    /\ passed_tests = <<>>
    /\ failed_tests = <<>>
    /\ reported = FALSE
    /\ approval = Unasked
    /\ prompts = 0
    /\ attempt_number = 0
    /\ call = NoCall
    /\ generate_calls = 0
    /\ call_log = <<>>
    /\ gen_log = <<>>
    /\ runner_calls = 0
    /\ result = "(not run)"
    /\ fix_log = <<>>
    /\ at_prompt = [asked |-> FALSE, files |-> FilesOf({}), calls |-> 0]
    /\ norm_in = NoResponse
    /\ norm_out = NoCall
    /\ ext_in = EmptyText
    /\ ext_out = [done |-> FALSE, text |-> EmptyText]

disk == <<srcExists, tree>>

results == <<test_results, passed_tests, failed_tests, reported, runner_calls,
             result>>

client == <<attempt_number, call, generate_calls, call_log>>

normalizer == <<norm_in, norm_out, ext_in, ext_out>>

logs == <<gen_log, fix_log, at_prompt>>

\* lines 86-108: the walk of src/, sys.exit(1) without src/, sys.exit(0)
\* without a Python file
Discover ==
    /\ pc = "start"
    /\ IF ~srcExists
          THEN pc' = "exit1" /\ python_files' = python_files
       ELSE IF Qualifying(tree) = {}
          THEN pc' = "exit0" /\ python_files' = python_files
       ELSE pc' = "gen" /\ python_files' \in WalkOrders(Qualifying(tree))
    /\ idx' = 1
    /\ UNCHANGED <<disk, files, test_files_created, created_from, results,
                   approval, prompts, client, logs, normalizer>>

\* main calls generate_test_code
StartCall ==
    /\ attempt_number' = 0
    /\ call' = NoCall
    /\ call_log' = <<>>
    /\ generate_calls' = generate_calls + 1

\* main has taken the outcome of the call: no call is running
EndCall ==
    /\ attempt_number' = 0
    /\ call' = NoCall
    /\ call_log' = <<>>
    /\ generate_calls' = generate_calls

\* lines 112-125: the source file is read outside the try block, then the
\* call begins
ReadSource ==
    /\ pc = "gen"
    /\ idx <= Len(python_files)
    /\ \E readable \in BOOLEAN :
          IF readable
             THEN pc' = "gen_call" /\ StartCall
          ELSE pc' = "abort_read_source" /\ UNCHANGED client
    /\ UNCHANGED <<disk, python_files, idx, files, test_files_created,
                   created_from, results, approval, prompts, logs,
                   normalizer>>

\* one attempt of generate_test_code that ended with out
Attempt(out) ==
    /\ attempt_number' = attempt_number + 1
    /\ generate_calls' = generate_calls
    /\ call_log' = Append(call_log, out)
    /\ call' = AfterAttempt(out, attempt_number + 1)
    /\ pc' = IF call'.kind = "idle" THEN pc
             ELSE IF pc = "gen_call" THEN "gen_save" ELSE "fix_save"

\* lines 30-44: the backend raises, or its response is normalized
GenerateAttempt ==
    /\ pc \in {"gen_call", "fix_call"}
    /\ \/ \E exc \in BackendExceptions : Attempt(Raised(exc))
       \/ \E r \in BackendResponses : Attempt(extract_text_from_response(r))
    /\ UNCHANGED <<disk, python_files, idx, files, test_files_created,
                   created_from, results, approval, prompts, logs,
                   normalizer>>

\* a blank check that only catches the empty text
IsEmptyOnly(text) == text = EmptyText

\* not test_code.strip()
IsBlank(text) == StripText(text) = EmptyText

\* the module, how generate_test_code ended for it, and what became of the
\* write of its test file ("skipped" when none was tried)
GenEntry(saved) == [module |-> idx, call |-> call.kind, saved |-> saved]

\* lines 125-143: extraction, the blank check and the write of the test file
SaveTest ==
    /\ pc = "gen_save"
    /\ LET path == TestFilePath(python_files[idx])
           test_code == extract_code_from_markdown(call.text)
       IN  IF call.kind = "raise"
              THEN /\ gen_log' = Append(gen_log, GenEntry("skipped"))
                   /\ UNCHANGED <<files, test_files_created, created_from>>
           ELSE IF call.kind = "none"
              \* extract_code_from_markdown(None) raises AttributeError
              THEN /\ gen_log' = Append(gen_log, GenEntry("skipped"))
                   /\ UNCHANGED <<files, test_files_created, created_from>>
           ELSE IF IsBlank(test_code)
              THEN /\ gen_log' = Append(gen_log, GenEntry("skipped"))
                   /\ UNCHANGED <<files, test_files_created, created_from>>
           ELSE \E w \in WriteOutcomes :
                   /\ files' = [files EXCEPT ![path] = AfterWrite(@, test_code, w)]
                   /\ gen_log' = Append(gen_log, GenEntry(w))
                   /\ IF w = "written"
                         THEN /\ test_files_created' = Append(test_files_created, path)
                              /\ created_from' = Append(created_from, idx)
                      ELSE UNCHANGED <<test_files_created, created_from>>
    /\ idx' = idx + 1
    /\ pc' = "gen"
    /\ EndCall
    /\ UNCHANGED <<disk, python_files, results, approval, prompts, fix_log,
                   at_prompt, normalizer>>

\* an execution stage that starts as soon as one test file was created
StartExecutionEarly ==
    /\ pc = "gen"
    /\ test_files_created # <<>>
    /\ pc' = "exec"
    /\ idx' = 1
    /\ UNCHANGED <<disk, python_files, files, test_files_created, created_from,
                   results, approval, prompts, client, logs, normalizer>>

\* an execution stage that is entered without any test file
StartExecutionUnguarded ==
    /\ pc = "gen"
    /\ idx > Len(python_files)
    /\ pc' = "exec"
    /\ idx' = 1
    /\ UNCHANGED <<disk, python_files, files, test_files_created, created_from,
                   results, approval, prompts, client, logs, normalizer>>

\* line 146: the tests run only if a test file was created
StartExecution ==
    /\ pc = "gen"
    /\ idx > Len(python_files)
    /\ pc' = IF test_files_created # <<>> THEN "exec" ELSE "done"
    /\ idx' = 1
    /\ UNCHANGED <<disk, python_files, files, test_files_created, created_from,
                   results, approval, prompts, client, logs, normalizer>>

\* result.wasSuccessful() is True or False, or discover / run raised
RunnerOutcomes == {"passed", "failed", "exception"}

\* a record of the run that takes an exception for a success
RecordedUnlessFailed(out) == out # "failed"

\* lines 156 and 159: what test_results gets for the run
Recorded(out) == out = "passed"

\* lines 149-159: one test file is run; an exception counts as a failure
RunTest ==
    /\ pc = "exec"
    /\ idx <= Len(test_files_created)
    /\ \E out \in RunnerOutcomes :
          /\ result' = out
          /\ test_results' = DictSet(test_results, test_files_created[idx], Recorded(out))
    /\ runner_calls' = runner_calls + 1
    /\ idx' = idx + 1
    /\ UNCHANGED <<disk, python_files, pc, files, test_files_created,
                   created_from, passed_tests, failed_tests, reported,
                   approval, prompts, client, logs, normalizer>>

\* a gate that asks whenever a test was run
AsksAfterAnyRun(failed) == Len(failed) >= 0

\* line 174: if failed_tests
NeedsApproval(failed) == failed # <<>>

\* lines 162-174: the partition, the report, and the test of failed_tests
Report ==
    /\ pc = "exec"
    /\ idx > Len(test_files_created)
    /\ passed_tests' = KeysWith(test_results, TRUE)
    /\ failed_tests' = KeysWith(test_results, FALSE)
    /\ reported' = TRUE
    /\ pc' = IF NeedsApproval(failed_tests') THEN "approve" ELSE "done"
    /\ UNCHANGED <<disk, python_files, idx, files, test_files_created,
                   created_from, test_results, runner_calls, result, approval,
                   prompts, client, logs, normalizer>>

\* lines 175-176: input() returns an answer, or raises EOFError
AskApproval ==
    /\ pc = "approve"
    /\ prompts' = prompts + 1
    /\ \/ \E a \in Answers :
             /\ approval' = a
             /\ pc' = IF IsApproved(a) THEN "fix" ELSE "done"
       \/ approval' = approval /\ pc' = "abort_input"
    /\ idx' = 1
    /\ at_prompt' = [asked |-> TRUE, files |-> files, calls |-> generate_calls]
    /\ UNCHANGED <<disk, python_files, files, test_files_created, created_from,
                   results, client, gen_log, fix_log, normalizer>>

\* lines 177-188: the failed test file is read outside the try block, then
\* the call begins
ReadTest ==
    /\ pc = "fix"
    /\ idx <= Len(failed_tests)
    /\ \E readable \in BOOLEAN :
          IF readable
             THEN pc' = "fix_call" /\ StartCall
          ELSE pc' = "abort_read_test" /\ UNCHANGED client
    /\ UNCHANGED <<disk, python_files, idx, files, test_files_created,
                   created_from, results, approval, prompts, logs,
                   normalizer>>

\* the test file, how generate_test_code ended for it, and what became of
\* the overwrite ("skipped" when none was tried)
FixEntry(saved) == [path |-> failed_tests[idx], call |-> call.kind, saved |-> saved]

\* lines 188-207: extraction, sanitization, the compile check and the
\* overwrite of the test file
SaveFix ==
    /\ pc = "fix_save"
    /\ LET path == failed_tests[idx]
           fixed_code == sanitize_generated_text(extract_code_from_markdown(call.text))
       IN  IF call.kind = "raise"
              THEN /\ fix_log' = Append(fix_log, FixEntry("skipped"))
                   /\ files' = files
           ELSE IF call.kind = "none"
              THEN /\ fix_log' = Append(fix_log, FixEntry("skipped"))
                   /\ files' = files
           ELSE IF ~Compiles(fixed_code)
              THEN /\ fix_log' = Append(fix_log, FixEntry("skipped"))
                   /\ files' = files
           ELSE \E w \in WriteOutcomes :
                   /\ files' = [files EXCEPT ![path] = AfterWrite(@, fixed_code, w)]
                   /\ fix_log' = Append(fix_log, FixEntry(w))
    /\ idx' = idx + 1
    /\ pc' = "fix"
    /\ EndCall
    /\ UNCHANGED <<disk, python_files, test_files_created, created_from,
                   results, approval, prompts, gen_log, at_prompt, normalizer>>

\* an end of the repair loop that runs the test files again
FinishRepairWithRerun ==
    /\ pc = "fix"
    /\ idx > Len(failed_tests)
    /\ pc' = "exec"
    /\ idx' = 1
    /\ UNCHANGED <<disk, python_files, files, test_files_created,
                   created_from, results, approval, prompts, client, logs,
                   normalizer>>

\* line 209: the repair loop is over
FinishRepair ==
    /\ pc = "fix"
    /\ idx > Len(failed_tests)
    /\ pc' = "done"
    /\ UNCHANGED <<disk, python_files, idx, files, test_files_created,
                   created_from, results, approval, prompts, client, logs,
                   normalizer>>

Next ==
    \/ Discover
    \/ ReadSource
    \/ GenerateAttempt
    \/ SaveTest
    \/ StartExecution
    \/ RunTest
    \/ Report
    \/ AskApproval
    \/ ReadTest
    \/ SaveFix
    \/ FinishRepair

Spec == Init /\ [][Next]_vars

-----------------------------------------------------------------------------
(* extract_text_from_response on its own *)

InitNormalize ==
    /\ Init
    /\ ~srcExists

\* extract_text_from_response is given a response
Normalize ==
    /\ \E r \in {x \in Responses : Sized(x)} :
          /\ norm_in' = r
          /\ norm_out' = extract_text_from_response(r)
    /\ UNCHANGED <<disk, python_files, pc, idx, files, test_files_created,
                   created_from, results, approval, prompts, client, logs,
                   ext_in, ext_out>>

SpecNormalize == InitNormalize /\ [][Normalize]_vars

-----------------------------------------------------------------------------
(* extract_code_from_markdown on its own *)

\* the lines a text is made of
TextLines ==
    {"x = 1", "y = 2", "", "[fence]python", "  [fence]python", "[fence]", "[fence]js"}

\* the texts of at most MaxLines lines (a last line "" is a final newline)
Texts == UNION {[1..n -> TextLines] : n \in 1..MaxLines}

InitExtract ==
    /\ Init
    /\ ~srcExists

\* extract_code_from_markdown is given a text, once in a behaviour
Extract ==
    /\ ~ext_out.done
    /\ \E text \in Texts :
          /\ ext_in' = text
          /\ ext_out' = [done |-> TRUE, text |-> extract_code_from_markdown(text)]
    /\ UNCHANGED <<disk, python_files, pc, idx, files, test_files_created,
                   created_from, results, approval, prompts, client, logs,
                   norm_in, norm_out>>

SpecExtract == InitExtract /\ [][Extract]_vars

-----------------------------------------------------------------------------
(* Properties *)

Terminated == pc \in {"done", "exit0", "exit1", "abort_read_source",
                      "abort_read_test", "abort_input"}

CallEnded == pc \in {"gen_save", "fix_save"}

QuotaOrTimeout(out) ==
    out.kind = "raise" /\ out.exc.type \in {"ResourceExhausted", "TimeoutError"}

\* C1: in every generate_test_code call the backend is called at most 3
\* times; an attempt is followed by another one only if it failed with a
\* quota or timeout error; a call whose attempts all failed that way made
\* exactly 3 attempts and raises; any other exception ends the call, which
\* raises, with that attempt; the first successful attempt ends the call
\* with what that attempt returned.
C1_RetryPolicy ==
    /\ attempt_number <= 3
    /\ Len(call_log) = attempt_number
    /\ \A i \in 1..(Len(call_log) - 1) : QuotaOrTimeout(call_log[i])
    /\ (pc \in {"gen_call", "fix_call"} /\ call_log # <<>>) =>
          QuotaOrTimeout(call_log[Len(call_log)])
    /\ CallEnded =>
          /\ call_log # <<>>
          /\ LET last == call_log[Len(call_log)]
             IN  /\ QuotaOrTimeout(last) => Len(call_log) = 3 /\ call.kind = "raise"
                 /\ last.kind = "raise" => call.kind = "raise"
                 /\ last.kind # "raise" => call = last

\* C1 witness: a call that ended after three quota or timeout failures
C1_Witness ==
    /\ CallEnded
    /\ Len(call_log) = 3
    /\ \A i \in 1..3 : QuotaOrTimeout(call_log[i])
    /\ call.kind = "raise"

RECURSIVE ArtifactsOf(_, _)
\* the test file paths of the entries of log whose <<call, saved>> is in
\* made, in order
ArtifactsOf(log, made) ==
    IF log = <<>> THEN <<>>
    ELSE (IF <<log[1].call, log[1].saved>> \in made
             THEN <<TestFilePath(python_files[log[1].module])>> ELSE <<>>)
             \o ArtifactsOf(Tail(log), made)

SaveOutcomes == WriteOutcomes \cup {"skipped"}

GenerationOver == pc \in {"exec", "approve", "fix", "fix_call", "fix_save", "done",
                          "abort_read_test", "abort_input"}

InDiscoveryOrder == \A k \in 1..Len(gen_log) : gen_log[k].module = k

\* C2 as claimed: every module is attempted in discovery order; a module
\* whose generate call raised (or ended without a text) or whose extracted
\* text is blank has no artifact, and every other module has exactly one
\* entry in the list of created test files.
C2_OneArtifactPerOtherModule ==
    LET other == ({"text"} \X SaveOutcomes) \ {<<"text", "skipped">>}
    IN  /\ InDiscoveryOrder
        /\ GenerationOver => Len(gen_log) = Len(python_files)
        /\ (pc # "gen_save") => test_files_created = ArtifactsOf(gen_log, other)

\* the step of main that takes the outcome of the generate call of a module
SaveTestStep ==
    LET path == TestFilePath(python_files[idx])
        code == extract_code_from_markdown(call.text)
        usable == call.kind = "text" /\ StripText(code) # EmptyText
    IN  /\ pc' = "gen"
        /\ idx' = idx + 1
        /\ ~usable => files' = files /\ test_files_created' = test_files_created
        /\ usable =>
              \/ /\ test_files_created' = Append(test_files_created, path)
                 /\ files' = [files EXCEPT ![path] = FileWith(code)]
              \/ /\ test_files_created' = test_files_created
                 /\ \A q \in TestPaths \ {path} : files'[q] = files[q]

\* C2 as amended: every module is attempted in discovery order; a module
\* whose generate call raised or returned no text, or whose extracted text
\* is blank, gets no artifact and no file write; every other module gets
\* one entry test_<basename> in the list of created test files, written
\* with the extracted text verbatim, unless the write of that file failed,
\* and then it gets no entry; the next module is handled in every case.
C2_ArtifactPerWrittenModule ==
    /\ [](InDiscoveryOrder
          /\ (GenerationOver => Len(gen_log) = Len(python_files))
          /\ (pc # "gen_save" =>
                test_files_created = ArtifactsOf(gen_log, {<<"text", "written">>})))
    /\ [][pc = "gen_save" => SaveTestStep]_vars

\* C2 witness: of two modules, the first failed in generate and the second
\* got its test file
C2_Witness ==
    /\ GenerationOver
    /\ Len(gen_log) = 2
    /\ gen_log[1].call = "raise"
    /\ gen_log[2].saved = "written"
    /\ test_files_created = <<TestFilePath(python_files[2])>>
    /\ files[TestFilePath(python_files[2])].exists

\* C3 as claimed: no test file path is in test_files_created twice, so two
\* modules never share a test file.
C3_OneToOne ==
    \A i, j \in 1..Len(test_files_created) :
        i # j => test_files_created[i] # test_files_created[j]

\* C3 failing run: two modules of the same basename each got a test file
C3_SharedArtifact ==
    \E i, j \in 1..Len(test_files_created) :
        /\ i # j
        /\ created_from[i] # created_from[j]
        /\ test_files_created[i] = test_files_created[j]

\* C4 as claimed: a repair whose model output has no fenced block, so that
\* the extracted text is empty, leaves the test file as it was.
C4_EmptyRepairSkipped ==
    [][(/\ pc = "fix_save"
        /\ call.kind = "text"
        /\ extract_code_from_markdown(call.text) = EmptyText) => files' = files]_vars

\* a text with a line that is no Python
HasSyntaxError(text) == \E i \in 1..Len(text) : text[i] = "def f(:"

\* C5: an approved repair whose sanitized model output is no valid Python
\* leaves every test file as it was, and main goes on with the next failed
\* test.
C5_InvalidRepairSkipped ==
    [][(/\ pc = "fix_save"
        /\ call.kind = "text"
        /\ HasSyntaxError(sanitize_generated_text(extract_code_from_markdown(call.text))))
       => (files' = files /\ pc' = "fix" /\ idx' = idx + 1)]_vars

\* C5 witness: the first of two failed tests got a repair that is no valid
\* Python, was left as generated, and main is at the second one
C5_Witness ==
    /\ pc = "fix"
    /\ Len(failed_tests) = 2
    /\ idx = 2
    /\ fix_log = <<[path |-> failed_tests[1], call |-> "text", saved |-> "skipped"]>>
    /\ files = at_prompt.files

\* C6: after an answer other than yes, no generate_test_code call is made
\* and no test file is written: the run is over and the test files are as
\* they were when input was called.
C6_DeclineChangesNothing ==
    (approval \notin {Unasked, "yes", "YES"}) =>
        /\ pc = "done"
        /\ files = at_prompt.files
        /\ generate_calls = at_prompt.calls
        /\ fix_log = <<>>

\* C6 witness: a run that ended on the answer no with a failed test
C6_Witness ==
    /\ pc = "done"
    /\ approval = "no"
    /\ failed_tests # <<>>
    /\ at_prompt.asked

\* the test files that test_results holds as failed
FailedSet == {test_results[i].key : i \in {k \in 1..Len(test_results) : ~test_results[k].val}}

\* C7: input is called at most once; a run that ended called it if and
\* only if a test failed, never without a failed test or without a created
\* test file; and a repair call or an overwrite happens only after it was
\* called and answered yes.
C7_SingleApprovalGate ==
    /\ prompts <= 1
    /\ (prompts = 1) = at_prompt.asked
    /\ (prompts = 1) => (reported /\ FailedSet # {} /\ test_files_created # <<>>)
    /\ Terminated => ((prompts = 1) <=> (FailedSet # {}))
    /\ (\/ pc \in {"fix", "fix_call", "fix_save"}
        \/ fix_log # <<>>
        \/ generate_calls > Len(python_files)
        \/ (at_prompt.asked /\ files # at_prompt.files)) =>
          (prompts = 1 /\ approval \in {"yes", "YES"})

\* C7 witness: a repair call runs after the one prompt was answered yes
C7_Witness ==
    /\ pc = "fix_call"
    /\ prompts = 1
    /\ approval = "YES"

\* C8 as claimed: once modules were discovered, no unreadable source file
\* and no unreadable test file ends the run.
C8_NoAbortAfterSetup ==
    python_files # <<>> => pc \notin {"abort_read_source", "abort_read_test"}

\* C9 as claimed: a call whose three attempts failed with quota or timeout
\* errors raises what the third attempt raised.
C9_LastErrorRaised ==
    (CallEnded /\ Len(call_log) = 3 /\ QuotaOrTimeout(call_log[3])) =>
        call = call_log[3]

\* a response of none of the shapes extract_text_from_response knows
MatchesNoShape(r) ==
    /\ ~(~r.isDict /\ r.generations.present /\ Len(r.generations.items) > 0)
    /\ ~(~r.isDict /\ r.text.present)
    /\ ~(r.isDict /\ r.generations.present /\ r.generations.isList
            /\ Len(r.generations.items) > 0)
    /\ ~(r.isDict /\ r.text.present)
    /\ ~(~r.isDict /\ r.choices.present /\ Len(r.choices.items) > 0)

\* C10 as claimed: a response of none of the recognized shapes makes
\* extract_text_from_response raise the unrecognized-response error.
C10_UnrecognizedRaises ==
    (norm_out.kind # "idle" /\ MatchesNoShape(norm_in)) =>
        norm_out = Raised(UnrecognizedResponse)

\* the text of the first element of a list, when it has one
FirstItemText(l) ==
    IF l.items # <<>> /\ l.items[1].hasText
        THEN [present |-> TRUE, val |-> l.items[1].text]
    ELSE Absent

\* the recognized shapes in their priority order, each with whether the
\* response matches it and the text it carries
RecognizedShapes(r) ==
    << [matches |-> ~r.isDict /\ r.generations.present /\ r.generations.items # <<>>,
        text    |-> FirstItemText(r.generations)],
       [matches |-> ~r.isDict /\ r.text.present,
        text    |-> r.text],
       [matches |-> r.isDict /\ r.generations.present /\ r.generations.isList
                       /\ r.generations.items # <<>>,
        text    |-> FirstItemText(r.generations)],
       [matches |-> r.isDict /\ r.text.present,
        text    |-> r.text],
       [matches |-> ~r.isDict /\ r.choices.present /\ r.choices.items # <<>>,
        text    |-> FirstItemText(r.choices)] >>

IsFenceLine(line) == StripLine(line) \in {"[fence]python", "[fence]", "[fence]js"}

\* a line that after trimming is the fence marker tagged python
IsPythonOpener(line) == StripLine(line) = "[fence]python"

NoFenceIn(lines) == \A i \in 1..Len(lines) : ~IsFenceLine(lines[i])

\* C12 as claimed: a text made of a fence opener, bare or tagged with any
\* language, the lines L1..Ln and a bare closing fence is extracted to
\* exactly L1..Ln joined by newline.
C12_AnyFenceOpens ==
    ext_out.done =>
        LET lines == SplitLines(ext_in)
        IN  (/\ Len(lines) >= 3
             /\ IsFenceLine(lines[1])
             /\ StripLine(lines[Len(lines)]) = "[fence]"
             /\ NoFenceIn(SubSeq(lines, 2, Len(lines) - 1))) =>
                ext_out.text = JoinLines(SubSeq(lines, 2, Len(lines) - 1))

\* line i lies inside a block: it is no fence line and comes after an
\* opener tagged python with no other fence line in between
InsideBlock(lines, i) ==
    /\ ~IsFenceLine(lines[i])
    /\ \E j \in 1..(i - 1) :
          /\ IsPythonOpener(lines[j])
          /\ \A k \in (j + 1)..(i - 1) :
                IsFenceLine(lines[k]) => IsPythonOpener(lines[k])

RECURSIVE LinesInside(_, _)
\* the lines among the first n that lie inside a block, in their order
LinesInside(lines, n) ==
    IF n = 0 THEN <<>>
    ELSE LinesInside(lines, n - 1)
            \o (IF InsideBlock(lines, n) THEN <<lines[n]>> ELSE <<>>)

\* C12 as amended: extract_code_from_markdown returns exactly the lines
\* inside a block, in their order, joined by newline, blank lines
\* included, where a block is opened only by a line that after trimming
\* starts with the fence tagged python and is closed by any other line
\* that after trimming starts with a fence, bare or tagged; so one python
\* opener and one closer around L1..Ln give L1..Ln, an opener that is never
\* closed gives every line after it, and a text without a python opener
\* (a bare or otherwise tagged opener included) gives the empty text.
C12_PythonFencedLines ==
    ext_out.done =>
        LET lines == SplitLines(ext_in)
        IN  /\ ext_out.text = JoinLines(LinesInside(lines, Len(lines)))
            /\ (\A i \in 1..Len(lines) : ~IsPythonOpener(lines[i])) =>
                    ext_out.text = EmptyText
            /\ (Len(lines) >= 1 /\ IsPythonOpener(lines[1])
                    /\ NoFenceIn(Tail(lines))) =>
                    ext_out.text = JoinLines(Tail(lines))
            /\ (/\ Len(lines) >= 3
                 /\ IsPythonOpener(lines[1])
                 /\ IsFenceLine(lines[Len(lines)])
                 /\ ~IsPythonOpener(lines[Len(lines)])
                 /\ NoFenceIn(SubSeq(lines, 2, Len(lines) - 1))) =>
                    ext_out.text = JoinLines(SubSeq(lines, 2, Len(lines) - 1))

\* C12 witness: a python block of a code line and a blank line, closed by
\* a bare fence, was extracted to these two lines
C12_Witness ==
    /\ ext_out.done
    /\ ext_in = <<"  [fence]python", "x = 1", "", "[fence]">>
    /\ ext_out.text = <<"x = 1", "">>

\* the value test_results holds for a path
ValueOf(d, k) == d[CHOOSE i \in 1..Len(d) : d[i].key = k].val

\* C13: the runner is invoked only if a test file was created; every
\* runner call records its test file as passed if and only if the runner
\* reported success, an exception of the runner call records it as failed,
\* and main goes on with the next test file; when the report is made every
\* created test file was run and has a recorded outcome.
C13_EveryArtifactExecuted ==
    /\ []((pc = "exec" \/ runner_calls > 0 \/ reported) => test_files_created # <<>>)
    /\ []((GenerationOver /\ pc # "exec" /\ test_files_created # <<>>) =>
              /\ reported
              /\ runner_calls = Len(test_files_created)
              /\ \A i \in 1..Len(test_files_created) :
                    HasKey(test_results, test_files_created[i]))
    /\ [][(pc = "exec" /\ idx <= Len(test_files_created)) =>
              /\ pc' = "exec"
              /\ idx' = idx + 1
              /\ runner_calls' = runner_calls + 1
              /\ result' \in {"passed", "failed", "exception"}
              /\ HasKey(test_results', test_files_created[idx])
              /\ ValueOf(test_results', test_files_created[idx]) = (result' = "passed")
              /\ \A k \in 1..Len(test_results) :
                    test_results[k].key # test_files_created[idx] =>
                        test_results'[k] = test_results[k]]_vars

\* C13 witness: of two test files the first passed and the run of the
\* second raised; both have an outcome and the second one is failed
C13_Witness ==
    /\ reported
    /\ Len(test_files_created) = 2
    /\ runner_calls = 2
    /\ result = "exception"
    /\ test_results = << [key |-> test_files_created[1], val |-> TRUE],
                         [key |-> test_files_created[2], val |-> FALSE] >>

\* C14: once input was called, the runner is not invoked again and
\* test_results, passed_tests and failed_tests do not change; a test file
\* that a repair overwrote is still recorded as failed.
C14_NoRerunAfterApproval ==
    /\ [][at_prompt.asked =>
              /\ runner_calls' = runner_calls
              /\ test_results' = test_results
              /\ passed_tests' = passed_tests
              /\ failed_tests' = failed_tests]_vars
    /\ [](\A k \in 1..Len(fix_log) :
              /\ HasKey(test_results, fix_log[k].path)
              /\ ~ValueOf(test_results, fix_log[k].path))

\* C14 witness: the run ended after a repair overwrote a test file with
\* another text, and the file is still recorded as failed
C14_Witness ==
    /\ pc = "done"
    /\ Len(fix_log) = 1
    /\ fix_log[1].saved = "written"
    /\ files[fix_log[1].path] # at_prompt.files[fix_log[1].path]
    /\ test_results = <<[key |-> fix_log[1].path, val |-> FALSE]>>
    /\ runner_calls = 1

\* no file of the tree is a .py file other than __init__.py
NoSourceFile(fs) ==
    \A f \in fs : f.name.ext # ".py" \/ f.name.stem = "__init__"

\* C15: main ends with sys.exit(1) exactly when src does not exist and
\* with sys.exit(0) exactly when src exists and holds no .py file other
\* than __init__.py; in both cases no generate_test_code call, no runner
\* call and no input call was made, and no test file was created.
C15_ExitBeforeAnyStage ==
    /\ pc # "start" =>
          /\ (pc = "exit1") <=> ~srcExists
          /\ (pc = "exit0") <=> (srcExists /\ NoSourceFile(tree))
    /\ pc \in {"exit0", "exit1"} =>
          /\ generate_calls = 0
          /\ attempt_number = 0
          /\ runner_calls = 0
          /\ prompts = 0
          /\ test_files_created = <<>>
          /\ gen_log = <<>>
          /\ \A p \in TestPaths : ~files[p].exists

\* C15 witness: src holds only __init__.py and a text file, and main left
\* with sys.exit(0)
C15_Witness ==
    /\ pc = "exit0"
    /\ srcExists
    /\ tree # {}

\* C16 as claimed: a run that discovered a module and completed normally
\* has emitted the report, whatever the generation outcomes were.
C16_ReportBeforeCompletion ==
    (pc = "done" /\ python_files # <<>>) => reported

\* the keys of a dict
Keys(d) == {d[i].key : i \in 1..Len(d)}

\* the elements of a list
Elems(l) == {l[i] : i \in 1..Len(l)}

\* C16 as amended: a run that discovered a module and completed normally
\* has emitted the report if and only if at least one test file was
\* created; a run in which every generation failed completes without a
\* report; an emitted report lists every executed test file once, as
\* passed or as failed according to its recorded outcome.
C16_ReportIffArtifact ==
    /\ (pc = "done" /\ python_files # <<>>) =>
          (reported <=> test_files_created # <<>>)
    /\ reported =>
          /\ Elems(passed_tests) = {k \in Keys(test_results) : ValueOf(test_results, k)}
          /\ Elems(failed_tests) = {k \in Keys(test_results) : ~ValueOf(test_results, k)}
          /\ Len(passed_tests) + Len(failed_tests) = Len(test_results)
          /\ Keys(test_results) = Elems(test_files_created)
    /\ ~reported => (passed_tests = <<>> /\ failed_tests = <<>> /\ prompts = 0)

\* C16 witness: of two modules one failed in generation and one got its
\* test file; the report was emitted and the run completed
C16_Witness ==
    /\ pc = "done"
    /\ reported
    /\ Len(python_files) = 2
    /\ Len(test_files_created) = 1
    /\ Len(passed_tests) = 1

\* C17: every file below src/ holds at every moment of the run what it
\* held when main started, and no file appears below src/: the writes of
\* the generation loop and of the repair loop go to paths in tests/ only.
C17_SourcesNeverWritten ==
    /\ [](\A p \in AllPaths : p.dir # TestDir => files[p] = FilesOf(tree)[p])
    /\ [][\A p \in AllPaths : files'[p] # files[p] => p.dir = TestDir]_vars

\* C17 witness: the run ended after the generation loop wrote a test file
\* and the repair loop overwrote it, and src/a.py is as it was
C17_Witness ==
    /\ pc = "done"
    /\ \E k \in 1..Len(gen_log) : gen_log[k].saved = "written"
    /\ \E k \in 1..Len(fix_log) : fix_log[k].saved = "written"
    /\ File(SrcDir, "a", ".py") \in tree
    /\ files[File(SrcDir, "a", ".py")] = FileWith(SourceText)
    /\ files[TestFilePath(File(SrcDir, "a", ".py"))].exists

CallRunning == pc \in {"gen_call", "fix_call"}

\* C18: while a generate_test_code call is running nothing else is
\* started or written (no further call, no runner call, no input call, no
\* file write), and a step starts at most one of a generate call and a
\* runner call; no runner call is made before the generation loop has
\* handled every discovered module; input is called and the repair loop
\* reads or writes only after the report was made with an outcome for
\* every created test file.
C18_StagesInSequence ==
    /\ [][CallRunning =>
              /\ generate_calls' = generate_calls
              /\ runner_calls' = runner_calls
              /\ prompts' = prompts
              /\ files' = files]_vars
    /\ [][(generate_calls' - generate_calls) + (runner_calls' - runner_calls)
              + (prompts' - prompts) \in {0, 1}]_vars
    /\ []((pc = "exec" \/ runner_calls > 0) =>
              (Len(gen_log) = Len(python_files) /\ generate_calls >= Len(gen_log)))
    /\ []((prompts > 0 \/ fix_log # <<>>
              \/ pc \in {"approve", "fix", "fix_call", "fix_save", "abort_read_test"}) =>
              /\ reported
              /\ runner_calls = Len(test_files_created)
              /\ Keys(test_results) = Elems(test_files_created))

\* C18 witness: a repair call is running after two modules were handled,
\* their two test files run and reported, and input called once
C18_Witness ==
    /\ pc = "fix_call"
    /\ attempt_number = 1
    /\ Len(gen_log) = 2
    /\ runner_calls = 2
    /\ reported
    /\ prompts = 1

\* C19: once input was called, a step changes only files that
\* test_results holds as failed, that exist and that the generation loop
\* created in this run; each failed test handled by the repair loop is
\* such a file; so a test file recorded as passed holds at every moment
\* what it held when the report was made, and no file appears that the
\* generation loop did not create.
C19_OnlyFailedRepaired ==
    /\ [][at_prompt.asked =>
              \A p \in AllPaths : files'[p] # files[p] =>
                  /\ HasKey(test_results, p)
                  /\ ~ValueOf(test_results, p)
                  /\ files[p].exists
                  /\ p \in Elems(test_files_created)]_vars
    /\ [](pc \in {"fix_call", "fix_save", "abort_read_test"} =>
              /\ HasKey(test_results, failed_tests[idx])
              /\ ~ValueOf(test_results, failed_tests[idx]))
    /\ [](at_prompt.asked =>
              \A p \in Elems(passed_tests) : files[p] = at_prompt.files[p])
    /\ []((reported /\ ~at_prompt.asked) => fix_log = <<>>)

\* C19 witness: of a passed and a failed test file the repair loop
\* overwrote the failed one, and the passed one is as it was
C19_Witness ==
    /\ pc = "done"
    /\ Len(passed_tests) = 1
    /\ Len(failed_tests) = 1
    /\ Len(fix_log) = 1
    /\ fix_log[1].saved = "written"
    /\ files[failed_tests[1]] # at_prompt.files[failed_tests[1]]
    /\ files[passed_tests[1]] = at_prompt.files[passed_tests[1]]
    /\ files[passed_tests[1]].exists

\* the steps one pass of the generation or repair loop still takes: the
\* read, up to 3 attempts, and the save
LeftInPass ==
    CASE pc \in {"gen", "fix"}           -> 5
      [] pc \in {"gen_call", "fix_call"} -> 4 - attempt_number
      [] pc \in {"gen_save", "fix_save"} -> 1
      [] OTHER                           -> 0

\* an upper bound of the number of steps main still takes
StepsLeft ==
    LET M == Cardinality(tree)
        N == Len(python_files)
        T == Len(test_files_created)
        F == Len(failed_tests)
    IN  CASE pc = "start"   -> 11 * M + 5
          [] pc \in {"gen", "gen_call", "gen_save"} ->
                 5 * (N - idx) + LeftInPass + 6 * N + 4
          [] pc = "exec"    -> (T + 1 - idx) + 5 * T + 3
          [] pc = "approve" -> 5 * F + 2
          [] pc \in {"fix", "fix_call", "fix_save"} ->
                 5 * (F - idx) + LeftInPass + 1
          [] OTHER          -> 0

\* main can take a step: one of its actions is enabled (for the save of a
\* repair: main holds the outcome of the call for a failed test of the list)
CanStep ==
    \/ ENABLED (Discover \/ ReadSource \/ GenerateAttempt \/ SaveTest
                    \/ StartExecution \/ RunTest \/ Report \/ AskApproval
                    \/ ReadTest \/ FinishRepair)
    \/ (pc = "fix_save" /\ idx \in 1..Len(failed_tests) /\ call.kind # "idle")

\* the backend calls the run can have made: 3 for each generate call that
\* ended, and the attempts of the running one
BackendCallsAtMost == 3 * (generate_calls - (IF CallRunning THEN 1 ELSE 0))
                          + (IF CallRunning THEN attempt_number ELSE 0)

\* C20: the run ends if every backend call, runner call and input call
\* returns or raises: every step of main lowers a bound of the steps
\* left, which is never negative, and main can take a step unless it
\* ended; every backend call is an attempt of the running
\* generate_test_code call, at most its third; the generation loop begins
\* at most one call per discovered module and the repair loop at most one
\* per failed test file; so the run makes at most
\* 3 x (modules + failed test files) backend calls.
C20_TerminatesWithinBudget ==
    /\ [][StepsLeft' < StepsLeft]_vars
    /\ [](StepsLeft >= 0)
    /\ [](~Terminated => CanStep)
    /\ [](attempt_number <= MaxAttempts /\ Len(call_log) = attempt_number)
    /\ [][call_log' # call_log /\ call_log' # <<>> =>
              /\ CallRunning
              /\ Len(call_log') = Len(call_log) + 1
              /\ generate_calls' = generate_calls]_vars
    /\ [](pc \in {"gen", "gen_call", "gen_save", "abort_read_source"} =>
              generate_calls = (IF pc \in {"gen", "abort_read_source"}
                                   THEN idx - 1 ELSE idx))
    /\ [](pc \in {"fix", "fix_call", "fix_save", "abort_read_test"} =>
              generate_calls = Len(python_files)
                                  + (IF pc \in {"fix", "abort_read_test"}
                                     THEN idx - 1 ELSE idx))
    /\ [](generate_calls <= Len(python_files) + Cardinality(Elems(failed_tests)))
    /\ [](BackendCallsAtMost
              <= 3 * (Len(python_files) + Cardinality(Elems(failed_tests))))

\* C20 witness: a run of two modules ended after four generate calls, two
\* of the generation loop and two of the repair loop
C20_Witness ==
    /\ pc = "done"
    /\ Len(python_files) = 2
    /\ Len(failed_tests) = 2
    /\ generate_calls = 4

====
